---- MODULE Spec2Model ----
(***************************************************************************)
(* Sliding-window lane detector of src/LaneLines.py (class LaneLines).     *)
(*                                                                         *)
(* One LaneLines instance receives a sequence of forward(img) calls.  A    *)
(* call is modelled in the steps the code takes: Forward (extract_features *)
(* and the seed estimation of find_lane_pixels), Window (one iteration of  *)
(* the window loop) and FitPoly (mirroring, fitting, rendering, return).   *)
(*                                                                         *)
(* Pixels are pairs <<x, y>> (column, row).  A fitted curve is the exact   *)
(* least-squares quadratic, kept as <<na, nb, nc, d>> standing for         *)
(* x = (na*y^2 + nb*y + nc) / d with d > 0 (numpy computes the same        *)
(* minimiser in floating point).                                           *)
(*                                                                         *)
(* The pixel thresholds and offsets the source writes as literals (50,     *)
(* 500, 800) are scaled down with the image so that TLC can enumerate the  *)
(* images; every formula below is stated in terms of these names.          *)
(***************************************************************************)
EXTENDS Integers, Sequences, FiniteSets, TLC

\* ---------------------------------------------------------------- bounds
\* Rows of every input image (img.shape[0]).
ImgHeight == 6
\* Number of forward calls made on the instance.
MaxCalls == 2
\* Columns excluded on each side of the midpoint (literal 50, lines 114-115).
SeedBuffer == 1
\* Mirroring offset (literal 800, lines 164 and 167).
laneWidthFallback == 20
\* Fit threshold (literal 500, lines 172 and 174).
minPixelsToFit == 4

\* ------------------------------------------- constants.py (from constants import *)
NWINDOWS == 3
MARGIN == 1
MINPIX == 1
WIDTH == 7
HEIGHT == 6

\* Python None (an unset curve)
None == <<>>

VARIABLES
    img,            \* self.img: [w, h, px]
    width,          \* self.width (0 while unset)
    height,         \* self.height (0 while unset)
    window_height,  \* self.window_height
    nonzerox,       \* self.nonzerox (row-major order of np.nonzero)
    nonzeroy,       \* self.nonzeroy
    left_fit,       \* self.left_fit: None or <<na, nb, nc, d>>
    right_fit,      \* self.right_fit
    pc,             \* "idle" | "window" | "fit": position inside forward
    band,           \* completed iterations of the window loop
    leftx_base,     \* locals of find_lane_pixels
    rightx_base,
    leftx_current,
    rightx_current,
    y_current,
    leftx, lefty,   \* accumulators returned by find_lane_pixels
    rightx, righty,
    fit_leftx, fit_lefty,    \* leftx, lefty of fit_poly after lines 163-168
    fit_rightx, fit_righty,
    fitted,         \* <<left, right>>: polyfit ran for the side in this call
    trace,          \* the seeds, then after each band: centres and accumulator lengths
    ret,            \* what the last forward call returned or raised
    ncalls          \* forward calls started

vars == <<img, width, height, window_height, nonzerox, nonzeroy, left_fit, right_fit,
          pc, band, leftx_base, rightx_base, leftx_current, rightx_current, y_current,
          leftx, lefty, rightx, righty, fit_leftx, fit_lefty, fit_rightx, fit_righty,
          fitted, trace, ret, ncalls>>

\* ------------------------------------------------------------ arithmetic
Abs(n) == IF n < 0 THEN -n ELSE n

RECURSIVE GcdNat(_, _)
GcdNat(a, b) == IF b = 0 THEN a ELSE GcdNat(b, a % b)

Gcd(a, b) == GcdNat(Abs(a), Abs(b))

Lcm(a, b) == (a \div Gcd(a, b)) * b

RECURSIVE SumSeq(_)
SumSeq(s) == IF s = <<>> THEN 0 ELSE Head(s) + SumSeq(Tail(s))

Pow(y, k) == IF k = 0 THEN 1 ELSE y ^ k

\* sum over i of y[i]^k
RECURSIVE PowSum(_, _)
PowSum(ys, k) == IF ys = <<>> THEN 0 ELSE Pow(Head(ys), k) + PowSum(Tail(ys), k)

\* sum over i of x[i] * y[i]^k
RECURSIVE MixSum(_, _, _)
MixSum(xs, ys, k) ==
    IF xs = <<>> THEN 0
    ELSE Head(xs) * Pow(Head(ys), k) + MixSum(Tail(xs), Tail(ys), k)

Det3(a, b, c, d, e, f, g, h, i) ==
    a * (e * i - f * h) - b * (d * i - f * g) + c * (d * h - e * g)

\* int(np.mean(xs)) for non-negative pixel columns: truncation of sum / count
TruncMean(xs) == SumSeq(xs) \div Len(xs)

\* ------------------------------------------------------------ the images
\* A stripe is one pixel wide: it stands on the bottom row at column a, is
\* shifted by dx columns from the j1-th row above the bottom on and by dx
\* again from the j2-th row on (a bend at row ImgHeight never happens), and
\* reaches up to row top.
StripeX(a, s, r) ==
    a + (IF (ImgHeight - 1 - r) >= s[1] THEN s[3] ELSE 0)
      + (IF (ImgHeight - 1 - r) >= s[2] THEN s[3] ELSE 0)

Stripe(a, s, top) == { <<StripeX(a, s, r), r>> : r \in top..(ImgHeight - 1) }

Straight == <<ImgHeight, ImgHeight, 0>>

Bent == { <<1, ImgHeight, 1>>, <<1, 3, 1>>, <<1, ImgHeight, -1>> }

Tops == { 0, 3, ImgHeight - 1 }

Widths == { 1, 3, 4, 7 }

InColumns(P, w) == \A p \in P : p[1] >= 0 /\ p[1] < w

\* one straight stripe of any extent, or one bent stripe of full height
OneStripe(w) ==
    { Stripe(a, Straight, t) : a \in 0..(w - 1), t \in Tops }
    \cup { P \in { Stripe(a, s, 0) : a \in 0..(w - 1), s \in Bent } : InColumns(P, w) }

\* two straight stripes, at least one of full height, far enough apart that
\* no search window holds two pixels of one row
TwoStripes(w) ==
    { Stripe(c[1], Straight, c[3][1]) \cup Stripe(c[2], Straight, c[3][2]) :
        c \in { d \in (0..(w - 1)) \X (0..(w - 1)) \X { <<0, 0>>, <<0, 3>>, <<3, 0>> } :
                    d[2] - d[1] > 2 * MARGIN } }

\* The input images: the empty image, one stripe, two stripes, in every width.
Images ==
    UNION { { [w |-> w, h |-> ImgHeight, px |-> P] :
                P \in {{}} \cup OneStripe(w) \cup TwoStripes(w) } : w \in Widths }

\* np.nonzero order: by row, then by column
RECURSIVE RowMajor(_)
RowMajor(S) ==
    IF S = {} THEN <<>>
    ELSE LET p == CHOOSE p \in S :
                    \A q \in S : p[2] < q[2] \/ (p[2] = q[2] /\ p[1] <= q[1])
         IN  <<p>> \o RowMajor(S \ {p})

Xs(ps) == [i \in 1..Len(ps) |-> ps[i][1]]
Ys(ps) == [i \in 1..Len(ps) |-> ps[i][2]]

\* ------------------------------------------------------- hist, seeds
\* hist(img): column sums of the bottom half, rows img.shape[0]//2 and below
hist(i) ==
    [c \in 0..(i.w - 1) |->
        Cardinality({ p \in i.px : p[1] = c /\ p[2] >= i.h \div 2 })]

\* The indices a Python slice a[lo:hi] of a length-n array selects
\* (a negative bound counts from the end).
SliceIdx(lo, hi, n) ==
    LET norm(k) == IF k < 0 THEN (IF n + k < 0 THEN 0 ELSE n + k)
                   ELSE (IF k > n THEN n ELSE k)
    IN  norm(lo)..(norm(hi) - 1)

\* np.argmax over the indices S of h: the first index of a maximum
ArgMaxLast(h, S) ==
    CHOOSE c \in S : \A d \in S : h[d] < h[c] \/ (h[d] = h[c] /\ d <= c)

ArgMax(h, S) ==
    CHOOSE c \in S : \A d \in S : h[d] < h[c] \/ (h[d] = h[c] /\ c <= d)

\* histogram[:(midpoint-50)] and histogram[midpoint+50:]
LeftHalf(w) == SliceIdx(0, w \div 2 - SeedBuffer, w)
RightHalf(w) == SliceIdx(w \div 2 + SeedBuffer, w, w)

\* ------------------------------------------------------ window search
NonzeroPts == [i \in 1..Len(nonzerox) |-> <<nonzerox[i], nonzeroy[i]>>]

\* pixels_in_window((cx, cy), margin, h): the cached nonzero pixels inside the
\* closed rectangle, in the order of the cache
pixels_in_window_open(cx, cy, margin, h) ==
    LET In(p) == /\ cx - margin <= p[1]
                 /\ cy - h \div 2 <= p[2] /\ p[2] <= cy + h \div 2
    IN  SelectSeq(NonzeroPts, In)

pixels_in_window(cx, cy, margin, h) ==
    LET In(p) == /\ cx - margin <= p[1] /\ p[1] <= cx + margin
                 /\ cy - h \div 2 <= p[2] /\ p[2] <= cy + h \div 2
    IN  SelectSeq(NonzeroPts, In)

\* lines 142-143 / 145-146: the centre of the next band
RecentreAtThreshold(current, good_x, good_y) ==
    IF Len(good_x) >= MINPIX /\ Len(good_x) > 0 THEN TruncMean(good_x) ELSE current

RecentreOnRows(current, good_x, good_y) ==
    IF Len(good_x) > MINPIX THEN TruncMean(good_y) ELSE current

Recentre(current, good_x, good_y) ==
    IF Len(good_x) > MINPIX THEN TruncMean(good_x) ELSE current

\* ------------------------------------------------------ mirroring, fit
\* line 164: leftx = [x - 800 for x in rightx]
MirrorLeftAdd(rx) == [i \in 1..Len(rx) |-> rx[i] + laneWidthFallback]

MirrorLeft(rx) == [i \in 1..Len(rx) |-> rx[i] - laneWidthFallback]

\* line 167: rightx = [x + 800 for x in leftx]
MirrorRight(lx) == [i \in 1..Len(lx) |-> lx[i] + laneWidthFallback]

\* np.polyfit(ys, xs, 2): the least-squares quadratic x = a*y^2 + b*y + c, from
\* the normal equations by Cramer's rule, as <<na, nb, nc, d>> in lowest terms.
\* With fewer than three distinct rows the system is singular (numpy then
\* returns a minimum-norm solution); FitWellPosed shows no image of the model
\* reaches that case, and the constant through the mean stands for it.
polyfit(ys, xs) ==
    LET S0 == Len(ys)
        S1 == PowSum(ys, 1)
        S2 == PowSum(ys, 2)
        S3 == PowSum(ys, 3)
        S4 == PowSum(ys, 4)
        T0 == SumSeq(xs)
        T1 == MixSum(xs, ys, 1)
        T2 == MixSum(xs, ys, 2)
        D  == Det3(S4, S3, S2, S3, S2, S1, S2, S1, S0)
        Na == Det3(T2, S3, S2, T1, S2, S1, T0, S1, S0)
        Nb == Det3(S4, T2, S2, S3, T1, S1, S2, T0, S0)
        Nc == Det3(S4, S3, T2, S3, S2, T1, S2, S1, T0)
        g  == Gcd(Gcd(Na, Nb), Gcd(Nc, D))
    IN  IF D = 0
        THEN <<0, 0, T0 \div Gcd(T0, S0), S0 \div Gcd(T0, S0)>>
        ELSE <<Na \div g, Nb \div g, Nc \div g, D \div g>>

\* np.dot(fit, [y**2, y, 1]) as the fraction <<numerator, denominator>>
EvalAt(fit, y) == <<fit[1] * y * y + fit[2] * y + fit[3], fit[4]>>

\* line 219: int((xl + xr) // 2), floor division of the float sum
HalfSum(xl, xr) ==
    LET l   == Lcm(xl[2], xr[2])
        num == xl[1] * (l \div xl[2]) + xr[1] * (l \div xr[2])
    IN  num \div (2 * l)

\* measure_center, lines 216-219
measure_center(lf, rf) == HalfSum(EvalAt(lf, HEIGHT), EvalAt(rf, HEIGHT))

\* line 163: the left side is the one synthesized
MirrorsLeft(ly, ry) == Len(ly) < Len(ry)

\* lines 172 and 174: the side is fitted
FitWanted(n) == n > minPixelsToFit

\* ------------------------------------------------------------- actions
NoImage == [w |-> 0, h |-> 0, px |-> {}]

Snapshot(lc, rc, ll, rl) == [lcur |-> lc, rcur |-> rc, llen |-> ll, rlen |-> rl]

Init ==
    /\ img = NoImage
    /\ width = 0 /\ height = 0 /\ window_height = 0
    /\ nonzerox = <<>> /\ nonzeroy = <<>>
    /\ left_fit = None /\ right_fit = None
    /\ pc = "idle"
    /\ band = 0
    /\ leftx_base = 0 /\ rightx_base = 0
    /\ leftx_current = 0 /\ rightx_current = 0 /\ y_current = 0
    /\ leftx = <<>> /\ lefty = <<>> /\ rightx = <<>> /\ righty = <<>>
    /\ fit_leftx = <<>> /\ fit_lefty = <<>> /\ fit_rightx = <<>> /\ fit_righty = <<>>
    /\ fitted = <<FALSE, FALSE>>
    /\ trace = <<>>
    /\ ret = [kind |-> "none"]
    /\ ncalls = 0

\* forward(img) up to the window loop: extract_features (lines 82-91) and
\* the seeds of find_lane_pixels (lines 106-126).  np.argmax of an empty
\* slice raises ValueError, which forward does not catch.
Forward(i) ==
    /\ pc = "idle"
    /\ ncalls < MaxCalls
    /\ ncalls' = ncalls + 1
    /\ img' = i
    /\ window_height' = i.h \div NWINDOWS
    /\ width' = i.w
    /\ height' = i.h
    /\ nonzerox' = Xs(RowMajor(i.px))
    /\ nonzeroy' = Ys(RowMajor(i.px))
    /\ leftx' = <<>> /\ lefty' = <<>> /\ rightx' = <<>> /\ righty' = <<>>
    /\ fit_leftx' = <<>> /\ fit_lefty' = <<>> /\ fit_rightx' = <<>> /\ fit_righty' = <<>>
    /\ fitted' = <<FALSE, FALSE>>
    /\ band' = 0
    /\ IF LeftHalf(i.w) = {} \/ RightHalf(i.w) = {}
       THEN /\ ret' = [kind |-> "ValueError"]
            /\ pc' = "idle"
            /\ leftx_base' = 0 /\ rightx_base' = 0
            /\ leftx_current' = 0 /\ rightx_current' = 0 /\ y_current' = 0
            /\ trace' = <<>>
       ELSE LET lb == ArgMax(hist(i), LeftHalf(i.w))
                rb == ArgMax(hist(i), RightHalf(i.w))
            IN  /\ ret' = [kind |-> "none"]
                /\ pc' = "window"
                /\ leftx_base' = lb /\ rightx_base' = rb
                /\ leftx_current' = lb /\ rightx_current' = rb
                /\ y_current' = i.h + (i.h \div NWINDOWS) \div 2
                /\ trace' = <<Snapshot(lb, rb, 0, 0)>>
    /\ UNCHANGED <<left_fit, right_fit>>

\* One iteration of the window loop, lines 128-146.
Window ==
    /\ pc = "window"
    /\ LET y  == y_current - window_height
           gl == pixels_in_window(leftx_current, y, MARGIN, window_height)
           gr == pixels_in_window(rightx_current, y, MARGIN, window_height)
           lc == Recentre(leftx_current, Xs(gl), Ys(gl))
           rc == Recentre(rightx_current, Xs(gr), Ys(gr))
       IN  /\ y_current' = y
           /\ leftx' = leftx \o Xs(gl)
           /\ lefty' = lefty \o Ys(gl)
           /\ rightx' = rightx \o Xs(gr)
           /\ righty' = righty \o Ys(gr)
           /\ leftx_current' = lc
           /\ rightx_current' = rc
           /\ trace' = Append(trace, Snapshot(lc, rc, Len(leftx) + Len(gl), Len(rightx) + Len(gr)))
    /\ band' = band + 1
    /\ pc' = IF band + 1 = NWINDOWS THEN "fit" ELSE "window"
    /\ UNCHANGED <<img, width, height, window_height, nonzerox, nonzeroy, left_fit,
                   right_fit, leftx_base, rightx_base, fit_leftx, fit_lefty,
                   fit_rightx, fit_righty, fitted, ret, ncalls>>

\* The image forward returns: channels, size, and what was drawn on it
\* (cv2.line calls, the cv2.circle marker).
Picture(ch, i, nlines, mark) ==
    [channels |-> ch, h |-> i.h, w |-> i.w, lines |-> nlines, marker |-> mark]

\* fit_poly after find_lane_pixels, lines 163-214.
FitPoly ==
    /\ pc = "fit"
    /\ LET ml  == MirrorsLeft(lefty, righty)
           flx == IF ml THEN MirrorLeft(rightx) ELSE leftx
           fly == IF ml THEN righty ELSE lefty
           frx == IF ml THEN rightx ELSE MirrorRight(leftx)
           fry == IF ml THEN righty ELSE lefty
           lf  == IF FitWanted(Len(fly)) THEN polyfit(fly, flx) ELSE left_fit
           rf  == IF FitWanted(Len(fry)) THEN polyfit(fry, frx) ELSE right_fit
       IN  /\ fit_leftx' = flx /\ fit_lefty' = fly
           /\ fit_rightx' = frx /\ fit_righty' = fry
           /\ fitted' = <<FitWanted(Len(fly)), FitWanted(Len(fry))>>
           /\ left_fit' = lf
           /\ right_fit' = rf
           /\ IF lf = None \/ rf = None
              THEN \* the except branch, line 202: return img, False, 0
                   ret' = [kind |-> "return", image |-> Picture(1, img, 0, FALSE),
                           success |-> FALSE, offset |-> 0]
              ELSE LET pos == measure_center(lf, rf)
                   IN  ret' = [kind |-> "return",
                               image |-> Picture(3, img, img.h, pos >= 0 /\ pos <= WIDTH),
                               success |-> TRUE, offset |-> pos]
    /\ pc' = "idle"
    /\ UNCHANGED <<img, width, height, window_height, nonzerox, nonzeroy, band,
                   leftx_base, rightx_base, leftx_current, rightx_current, y_current,
                   leftx, lefty, rightx, righty, trace, ncalls>>

Next ==
    \/ \E i \in Images : Forward(i)
    \/ Window
    \/ FitPoly

Spec == Init /\ [][Next]_vars

\* ------------------------------------------------------------ properties
Returned == pc = "idle" /\ ret.kind = "return"

Rows(ys) == { ys[i] : i \in 1..Len(ys) }

\* Every polyfit call of the model has at least three distinct rows, so the
\* least-squares quadratic is unique.
FitWellPosed ==
    Returned =>
        /\ fitted[1] => Cardinality(Rows(fit_lefty)) >= 3
        /\ fitted[2] => Cardinality(Rows(fit_righty)) >= 3

\* The two sides after mirroring always have the same rows (line 163 has
\* no third branch), so both are fitted in a call or neither is.
BothOrNeither == Returned => fit_lefty = fit_righty /\ fitted[1] = fitted[2]

\* num / den halved and floored is q:  2*den*q <= num < 2*den*(q+1)
IsFloorOfHalf(q, xl, xr) ==
    LET l   == Lcm(xl[2], xr[2])
        num == xl[1] * (l \div xl[2]) + xr[1] * (l \div xr[2])
    IN  2 * l * q <= num /\ num < 2 * l * (q + 1)

\* measure_center on the curves the instance holds: the offset of a
\* successful call is the floor of half the sum of self.left_fit and
\* self.right_fit at HEIGHT.
MeasureCenterFloor ==
    Returned /\ ret.success =>
        IsFloorOfHalf(ret.offset, EvalAt(left_fit, HEIGHT), EvalAt(right_fit, HEIGHT))

\* C1: after each call a side's curve is defined iff the side's point count
\* of this call, after mirroring, exceeds minPixelsToFit.
C1_CurveIffThreshold ==
    Returned =>
        /\ (left_fit # None) <=> (Len(fit_lefty) > minPixelsToFit)
        /\ (right_fit # None) <=> (Len(fit_righty) > minPixelsToFit)

\* C2: a call that leaves a side with no more than minPixelsToFit points
\* returns success = false, offset = 0 and draws nothing.
C2_FailureWhenSparse ==
    Returned /\ (Len(fit_lefty) <= minPixelsToFit \/ Len(fit_righty) <= minPixelsToFit) =>
        /\ ret.success = FALSE
        /\ ret.offset = 0
        /\ ret.image.lines = 0
        /\ ret.image.marker = FALSE

\* C3: when the left accumulator is strictly shorter, the left side becomes
\* the right side shifted by -laneWidthFallback with the right rows, in the
\* same order, and the right side is kept; symmetrically when the right
\* accumulator is strictly shorter.
C3_Mirroring ==
    Returned =>
        /\ Len(lefty) < Len(righty) =>
              /\ Len(fit_leftx) = Len(fit_rightx)
              /\ Len(fit_lefty) = Len(fit_righty)
              /\ fit_lefty = righty /\ fit_righty = righty
              /\ fit_rightx = rightx
              /\ Len(fit_leftx) = Len(rightx)
              /\ \A i \in 1..Len(rightx) : fit_leftx[i] = rightx[i] - laneWidthFallback
        /\ Len(righty) < Len(lefty) =>
              /\ Len(fit_leftx) = Len(fit_rightx)
              /\ Len(fit_lefty) = Len(fit_righty)
              /\ fit_righty = lefty /\ fit_lefty = lefty
              /\ fit_leftx = leftx
              /\ Len(fit_rightx) = Len(leftx)
              /\ \A i \in 1..Len(leftx) : fit_rightx[i] = leftx[i] + laneWidthFallback

C3_Witness ==
    /\ Returned
    /\ 0 < Len(lefty) /\ Len(lefty) < Len(righty)
    /\ fit_leftx[1] = rightx[1] - laneWidthFallback
    /\ fit_leftx # leftx

C3_WitnessRight ==
    /\ Returned
    /\ 0 < Len(righty) /\ Len(righty) < Len(lefty)
    /\ fit_rightx[1] = leftx[1] + laneWidthFallback
    /\ fit_rightx # rightx

\* The image with two full-height stripes, at columns a and b.
TwoFullStripes(a, b) == Stripe(a, Straight, 0) \cup Stripe(b, Straight, 0)

\* C4: when both sides collect the same number of points, above
\* minPixelsToFit, no mirroring is applied; two full-height stripes at
\* columns 1 and 5 of a 7-wide image give the curves x = 1 and x = 5 and the
\* offset 3.
C4_NoMirrorOnTie ==
    Returned /\ Len(lefty) = Len(righty) /\ Len(lefty) > minPixelsToFit =>
        /\ fit_leftx = leftx /\ fit_lefty = lefty
        /\ fit_rightx = rightx /\ fit_righty = righty
        /\ img.w = 7 /\ img.px = TwoFullStripes(1, 5) =>
              /\ ret.success
              /\ left_fit = <<0, 0, 1, 1>>
              /\ right_fit = <<0, 0, 5, 1>>
              /\ ret.offset = 3

\* The pixels of the image inside band k's window around column cx.
InBand(k, cx) ==
    LET cy == img.h + window_height \div 2 - k * window_height
    IN  { p \in img.px : /\ Abs(p[1] - cx) <= MARGIN
                         /\ Abs(p[2] - cy) <= window_height \div 2 }

\* Band k of one side: the centre before and after, and the x-values the
\* band appended to the side's accumulator.
BandRule(before, after, selected, window) ==
    /\ Len(selected) = Cardinality(window)
    /\ Len(selected) > MINPIX => after = SumSeq(selected) \div Len(selected)
    /\ Len(selected) <= MINPIX => after = before

\* C5: in every band and for each side, the centre for the next band is the
\* truncated mean x of the pixels selected in this band when their count
\* exceeds minPixelsToRecenter, and is unchanged otherwise.
C5_RecentreRule ==
    \A k \in 1..(Len(trace) - 1) :
        /\ BandRule(trace[k].lcur, trace[k + 1].lcur,
                    SubSeq(leftx, trace[k].llen + 1, trace[k + 1].llen),
                    InBand(k, trace[k].lcur))
        /\ BandRule(trace[k].rcur, trace[k + 1].rcur,
                    SubSeq(rightx, trace[k].rlen + 1, trace[k + 1].rlen),
                    InBand(k, trace[k].rcur))

\* A run in which a band of the right search selects exactly
\* minPixelsToRecenter pixels and keeps its centre, and bands of the left
\* search truncate a mean that is not a whole number and move the centre.
C5_Witness ==
    /\ Len(trace) = NWINDOWS + 1
    /\ \E k \in 1..NWINDOWS :
          /\ trace[k + 1].rlen - trace[k].rlen = MINPIX
          /\ trace[k + 1].rcur = trace[k].rcur
    /\ \E k \in 1..NWINDOWS :
          LET sel == SubSeq(leftx, trace[k].llen + 1, trace[k + 1].llen)
          IN  Len(sel) > MINPIX /\ SumSeq(sel) % Len(sel) # 0
    /\ \E k \in 1..NWINDOWS : trace[k + 1].lcur # trace[k].lcur

\* C6: every forward call returns a three-channel image of the input's
\* height and width.
C6_ThreeChannels ==
    Returned =>
        /\ ret.image.channels = 3
        /\ ret.image.h = img.h
        /\ ret.image.w = img.w

\* C7: whenever forward returns success, the offset is the floor of half
\* the sum, at HEIGHT, of the left and right curves fitted in this call.
C7_OffsetOfThisCall ==
    Returned /\ ret.success =>
        /\ fitted = <<TRUE, TRUE>>
        /\ IsFloorOfHalf(ret.offset,
                         EvalAt(polyfit(fit_lefty, fit_leftx), HEIGHT),
                         EvalAt(polyfit(fit_righty, fit_rightx), HEIGHT))

\* The image is a single stripe whose column does not decrease from the
\* bottom row to the top row.
RisingStripe ==
    /\ img.px # {}
    /\ \A p, q \in img.px : p[2] = q[2] => p = q
    /\ \A p, q \in img.px : p[2] < q[2] => p[1] >= q[1]

AllBandsRecentreLeft ==
    /\ Len(trace) = NWINDOWS + 1
    /\ \A k \in 1..NWINDOWS : trace[k + 1].llen - trace[k].llen > MINPIX

AllBandsRecentreRight ==
    /\ Len(trace) = NWINDOWS + 1
    /\ \A k \in 1..NWINDOWS : trace[k + 1].rlen - trace[k].rlen > MINPIX

\* C8 as stated: on a rising stripe with every band above
\* minPixelsToRecenter, the side's centre never decreases from a band to the
\* next, the seed of the first band included.
C8_MonotoneFromSeed ==
    /\ RisingStripe /\ AllBandsRecentreLeft =>
          \A k \in 1..NWINDOWS : trace[k].lcur <= trace[k + 1].lcur
    /\ RisingStripe /\ AllBandsRecentreRight =>
          \A k \in 1..NWINDOWS : trace[k].rcur <= trace[k + 1].rcur

\* C8 amended: the centres the bands compute never decrease from a band to
\* the next; the histogram seed of the first band is not part of the chain.
C8_MonotoneAfterSeed ==
    /\ RisingStripe /\ AllBandsRecentreLeft =>
          \A k \in 2..NWINDOWS : trace[k].lcur <= trace[k + 1].lcur
    /\ RisingStripe /\ AllBandsRecentreRight =>
          \A k \in 2..NWINDOWS : trace[k].rcur <= trace[k + 1].rcur

\* A rising stripe tracked by the left search through every band, the
\* centre moving right on the way.
C8_Witness ==
    /\ RisingStripe /\ AllBandsRecentreLeft
    /\ trace[2].lcur < trace[NWINDOWS + 1].lcur

\* Foreground pixels of column c in the bottom half of the image.
BottomCount(c) == Cardinality({ p \in img.px : p[1] = c /\ p[2] >= img.h \div 2 })

\* b is the lowest column of lo..hi with the largest BottomCount.
LowestMaximum(b, lo, hi) ==
    /\ lo <= b /\ b <= hi
    /\ \A c \in lo..hi : BottomCount(c) <= BottomCount(b)
    /\ \A c \in lo..(b - 1) : BottomCount(c) < BottomCount(b)

SeedsAsClaimed ==
    LET midpoint == img.w \div 2
    IN  /\ ret.kind # "ValueError"
        /\ LowestMaximum(leftx_base, 0, midpoint - SeedBuffer - 1)
        /\ LowestMaximum(rightx_base, midpoint + SeedBuffer, img.w - 1)
        /\ (\A c \in 0..(img.w - 1) : BottomCount(c) = 0) =>
              leftx_base = 0 /\ rightx_base = midpoint + SeedBuffer

\* C9 as stated: for every image of every width the seeds are the lowest
\* maxima of the profile over [0, midpoint-50) and [midpoint+50, width), an
\* all-zero profile gives 0 and midpoint+50, and no error is raised.
C9_SeedsEveryWidth == ncalls > 0 => SeedsAsClaimed

\* C9 amended: the same for every image at least 2*50+2 columns wide, where
\* both slices of the profile are non-empty.
C9_SeedsWideEnough == ncalls > 0 /\ img.w >= 2 * SeedBuffer + 2 => SeedsAsClaimed

\* An all-zero image wide enough for both slices, its seeds computed.
C9_Witness ==
    /\ ncalls > 0 /\ pc = "window"
    /\ img.w >= 2 * SeedBuffer + 2
    /\ img.px = {}
    /\ leftx_base = 0 /\ rightx_base = img.w \div 2 + SeedBuffer

\* A stripe seen in the bottom half decides the seed.
C9_WitnessStripe ==
    /\ ncalls > 0 /\ pc = "window"
    /\ leftx_base > 0 /\ BottomCount(leftx_base) > 0
    /\ BottomCount(rightx_base) > 0

\* No pixel is in both accumulators.
Disjoint ==
    \A i \in 1..Len(leftx), j \in 1..Len(rightx) :
        ~(leftx[i] = rightx[j] /\ lefty[i] = righty[j])

\* C10 as stated: no pixel coordinate appears in both the left and the
\* right accumulator.
C10_NeverBoth == Disjoint

\* C10 amended: no pixel is in both accumulators as long as every centre
\* the left search has used differs by more than 2*margin from every centre
\* the right search has used.
C10_DisjointWhenApart ==
    (\A j, k \in 1..band : Abs(trace[j].lcur - trace[k].rcur) > 2 * MARGIN) => Disjoint

\* Both searches collected pixels through all bands with windows apart.
C10_Witness ==
    /\ Returned
    /\ \A j, k \in 1..band : Abs(trace[j].lcur - trace[k].rcur) > 2 * MARGIN
    /\ Len(leftx) > minPixelsToFit /\ Len(rightx) > minPixelsToFit

====
